---- MODULE Spec2Model ----
(***************************************************************************)
(* A model of the SSE relay of legacyKim/comm_sse.                         *)
(*                                                                         *)
(* The repository holds three snapshots of one Express server:             *)
(*   src/unnamed/part_000        Postgres LISTEN/NOTIFY only               *)
(*   src/server.js    1 - 292    /comments/stream always on Redis pub/sub  *)
(*   src/server.js  294 - 589    /comments/stream on Redis or, when no     *)
(*                               broker is configured, a local sink list   *)
(* The routes are modelled one specification per stream kind:              *)
(*   SpecLocal      GET /comments/stream, POST /api/comment/notify and     *)
(*   SpecRedis      /api/comment/like-notify (server.js 387-585), with     *)
(*                  the broker disabled and enabled                        *)
(*   SpecSlug       GET /events/:url_slug (server.js 83-129)               *)
(*   SpecNotif      GET /notifications/stream/:userId (server.js          *)
(*                  483-525)                                               *)
(*   SpecPg         GET /comments/stream on LISTEN/NOTIFY (part_000        *)
(*                  104-162)                                               *)
(* A client id stands for one HTTP request (one req/res pair).  A handler  *)
(* runs to completion between two awaits, so every action is the code      *)
(* between two suspension points, or one event callback.                   *)
(***************************************************************************)
EXTENDS Integers, Sequences, FiniteSets, TLC

\* ---------------------------------------------------------------- bounds
NClients == 2
MaxEvents == 2

Clients == 1 .. NClients

\* The receivers of table notifications, and its rows: row n is the n-th
\* insert; 0 stands for an empty result.
Users == { "42", "7" }
Rows == 0 .. MaxEvents

VARIABLES
    useRedis,        \* the mode flag computed once at start-up
    pc,              \* per request: where its route handler stands
    topic,           \* per request: the :url_slug / :userId parameter ("" if none)
    reqClosed,       \* per request: req has emitted 'close'
    resErrored,      \* per request: res has emitted 'error'
    timer,           \* per request: setupSSE's keep-alive interval is set
    ended,           \* per request: res.end() has been called
    sent,            \* per request: the data frames res.write accepted, in order
    lateWrites,      \* per request: a res.write was attempted after res.end()
    localSSEClients, \* the local-mode sink list
    redisListeners,  \* the listeners of channel comment_events on redisSubscriber
    isActive,        \* per request: the messageHandler closure's flag
    pending,         \* per request: teardown handlers suspended in await unsubscribe
    brokerQ,         \* messages published on comment_events, not yet delivered
    nEvents,         \* events emitted by the sources so far
    reply,           \* the last response of a direct-publish call
    lastPub,         \* history: the last event of a source (for a local publish
                     \* the sink list and the failed writes; the text)
    clients,         \* the slug registry: url_slug -> list of sinks
    pgHeld,          \* per request: its pool.connect() client is checked out
    listening,       \* per request: LISTEN is in force on its connection
    notifyOn,        \* per request: its notify callback is on client 'notification'
    releases,        \* per request: calls of client.release()
    unlistens,       \* per request: UNLISTEN queries issued
    latest,          \* table notifications: receiver -> its most recent row (0: none)
    issued,          \* per request: re-queries of notify sent to the store, not yet run
    results,         \* per request: re-queries run, result not yet returned (row -> count)
    subscribed,      \* history: the request's subscription has completed
    teardowns,       \* history: how often a teardown handler of the request ran
    due              \* history: frames broadcast to the topic while subscribed

vars == << useRedis, pc, topic, reqClosed, resErrored, timer, ended, sent,
           lateWrites, localSSEClients, redisListeners, isActive,
           pending, brokerQ, nEvents, reply, lastPub, clients, pgHeld,
           listening, notifyOn, releases, unlistens, latest, issued, results,
           subscribed, teardowns, due >>

commentsVars == << useRedis, localSSEClients, redisListeners, isActive, pending,
                   brokerQ, reply, lastPub >>
queryVars == << latest, issued, results >>
pgVars == << clients, pgHeld, listening, notifyOn, releases, unlistens, queryVars >>

\* ------------------------------------------------------------ JSON, frames
\* An Event: an ordered mapping, a sequence of <<field, value>> pairs.
BodyHi == << <<"content", "hi">> >>
BodyLike == << <<"event", "UPDATE">>, <<"likes", "3">> >>
Bodies == { BodyHi, BodyLike }

\* Payloads of NOTIFY post_trigger: records correlating by url_slug, and
\* the record shape of notify_comment_change, which correlates by post_id.
RecAbc == << <<"event", "INSERT">>, <<"url_slug", "abc">> >>
RecXyz == << <<"event", "INSERT">>, <<"url_slug", "xyz">> >>
RecPostAbc == << <<"event", "INSERT">>, <<"post_id", "abc">> >>
Records == { RecAbc, RecXyz, RecPostAbc }

Objects == Bodies \cup Records

\* data[name]; "undefined" stands for a missing field.
Field(obj, name) ==
    IF \E i \in 1 .. Len(obj) : obj[i][1] = name
    THEN obj[CHOOSE i \in 1 .. Len(obj) : obj[i][1] = name][2]
    ELSE "undefined"

Quoted(s) == "\"" \o s \o "\""

RECURSIVE JSONMembers(_)
JSONMembers(ps) ==
    IF ps = << >> THEN ""
    ELSE Quoted(Head(ps)[1]) \o ":" \o Quoted(Head(ps)[2])
         \o (IF Len(ps) > 1 THEN "," ELSE "") \o JSONMembers(Tail(ps))

\* JSON.stringify of an object whose values are strings.
JSONStringify(obj) == "{" \o JSONMembers(obj) \o "}"

\* Texts a publisher other than this relay puts on the broker channel: one
\* with insignificant white space, one that is no JSON.
SpacedHi == "{ \"content\" : \"hi\" }"
NotJSON == "not-json"
WireTexts == { JSONStringify(b) : b \in Bodies } \cup { SpacedHi, NotJSON }

\* JSON.parse: the object a text denotes, or a thrown SyntaxError.
JSONParse(text) ==
    IF \E b \in Objects : JSONStringify(b) = text
    THEN [ok |-> TRUE, value |-> CHOOSE b \in Objects : JSONStringify(b) = text]
    ELSE IF text = SpacedHi THEN [ok |-> TRUE, value |-> BodyHi]
    ELSE [ok |-> FALSE, value |-> << >>]

\* `data: ${...}\n\n`
DataFrame(json) == "data: " \o json \o "\n\n"

\* The message texts of the source are Korean; they are written here in
\* ASCII, one distinct text per message.
ConnectedFrame(redis) ==
    DataFrame(JSONStringify(<< <<"event", "connected">>,
        <<"message", IF redis THEN "SSE connected (Redis mode)"
                              ELSE "SSE connected (local mode)">> >>))

ErrorFrame ==
    DataFrame(JSONStringify(<< <<"event", "error">>,
                               <<"message", "Redis subscribe error">> >>))

\* ------------------------------------------------------------ mode selector
RedisUrls == { "", "redis://localhost:6379", "redis://broker:6379" }
NodeEnvs == { "production", "development" }

UseRedis(url, env) ==
    /\ url # ""
    /\ url # "redis://localhost:6379"
    /\ env = "production"

\* ------------------------------------------------------------ the response
\* res.write(frame) on the responses in S: a response that was ended takes
\* no more data.
ResWrite(s, S, frame) ==
    [c \in Clients |-> IF c \in S /\ ~ended[c] THEN Append(s[c], frame) ELSE s[c]]

LateWrite(S) == [c \in Clients |-> lateWrites[c] \/ (c \in S /\ ended[c])]

Range(seq) == { seq[i] : i \in 1 .. Len(seq) }

\* The sum of a function of rows.
Sum2(f) == LET RECURSIVE S(_)
               S(n) == IF n < 0 THEN 0 ELSE f[n] + S(n - 1)
           IN S(MaxEvents)

\* localSSEClients.splice(localSSEClients.indexOf(res), 1), when found
SpliceOut(list, c) == SelectSeq(list, LAMBDA x : x # c)

InitCommon ==
    /\ pc = [c \in Clients |-> "idle"]
    /\ topic = [c \in Clients |-> ""]
    /\ reqClosed = [c \in Clients |-> FALSE]
    /\ resErrored = [c \in Clients |-> FALSE]
    /\ timer = [c \in Clients |-> FALSE]
    /\ ended = [c \in Clients |-> FALSE]
    /\ sent = [c \in Clients |-> << >>]
    /\ lateWrites = [c \in Clients |-> FALSE]
    /\ localSSEClients = << >>
    /\ redisListeners = {}
    /\ isActive = [c \in Clients |-> FALSE]
    /\ pending = [c \in Clients |-> {}]
    /\ brokerQ = << >>
    /\ nEvents = 0
    /\ reply = [status |-> 0, clients |-> 0]
    /\ lastPub = [list |-> << >>, threw |-> {}, json |-> ""]
    /\ clients = [s \in {} |-> << >>]
    /\ pgHeld = [c \in Clients |-> FALSE]
    /\ listening = [c \in Clients |-> FALSE]
    /\ notifyOn = [c \in Clients |-> FALSE]
    /\ releases = [c \in Clients |-> 0]
    /\ unlistens = [c \in Clients |-> 0]
    /\ latest = [u \in Users |-> 0]
    /\ issued = [c \in Clients |-> 0]
    /\ results = [c \in Clients |-> [r \in Rows |-> 0]]
    /\ subscribed = [c \in Clients |-> FALSE]
    /\ teardowns = [c \in Clients |-> 0]
    /\ due = [c \in Clients |-> << >>]

\* The sinks whose subscription has completed and whose teardown has not run.
Live == { c \in Clients : subscribed[c] /\ teardowns[c] = 0 }

\* The keep-alive interval of setupSSE fires: res.write(":\n\n").  The frame
\* goes to the peer and leaves the relay's state as it is, unless the
\* response was ended.
KeepAlive(c) ==
    /\ timer[c]
    /\ lateWrites' = LateWrite({c})
    /\ UNCHANGED << pc, topic, reqClosed, resErrored, timer, ended, sent, nEvents,
                    subscribed, teardowns, due, commentsVars, pgVars >>

\* ================================================================ comments
\* GET /comments/stream, POST /api/comment/notify, POST /api/comment/like-notify

\* localSSEClients.forEach(clientRes => { try { clientRes.write(dataString) }
\* catch (err) { console.error(...) } }): the frames each response holds
\* after the loop.  threw: the sinks whose write throws.
RECURSIVE LocalBroadcastNoCatch(_, _, _, _)
LocalBroadcastNoCatch(list, threw, frame, s) ==
    IF list = << >> \/ Head(list) \in threw THEN s
    ELSE LocalBroadcastNoCatch(Tail(list), threw, frame,
                               ResWrite(s, {Head(list)}, frame))

RECURSIVE LocalBroadcast(_, _, _, _)
LocalBroadcast(list, threw, frame, s) ==
    IF list = << >> THEN s
    ELSE LocalBroadcast(Tail(list), threw, frame,
            IF Head(list) \in threw THEN s ELSE ResWrite(s, {Head(list)}, frame))

\* const dataString = `data: ${JSON.stringify(commentData)}\n\n`
LocalFrameUnterminated(body) == "data: " \o JSONStringify(body) \o "\n"

LocalFrame(body) == DataFrame(JSONStringify(body))

\* messageHandler: JSON.parse(message), then `data: ${JSON.stringify(data)}\n\n`
HandlerFrame(message) == DataFrame(JSONStringify(JSONParse(message).value))

\* The handler up to `await redisSubscriber.subscribe` (Redis mode) or to its
\* return (local mode).
CommentsGet(c) ==
    /\ pc[c] = "idle"
    /\ timer' = [timer EXCEPT ![c] = TRUE]
    /\ sent' = [sent EXCEPT ![c] = << ConnectedFrame(useRedis) >>]
    /\ IF ~useRedis
       THEN /\ localSSEClients' = Append(localSSEClients, c)
            /\ pc' = [pc EXCEPT ![c] = "open"]
            /\ subscribed' = [subscribed EXCEPT ![c] = TRUE]
            /\ UNCHANGED isActive
       ELSE /\ isActive' = [isActive EXCEPT ![c] = TRUE]
            /\ pc' = [pc EXCEPT ![c] = "awaitSubscribe"]
            /\ UNCHANGED << localSSEClients, subscribed >>
    /\ UNCHANGED << useRedis, topic, reqClosed, resErrored, ended, 
                    lateWrites, redisListeners, pending, brokerQ, nEvents, reply,
                    lastPub, teardowns, due, pgVars >>

\* subscribe("comment_events", messageHandler) resolves: the listener is on
\* the channel and the handler registers req 'close' and res 'error'.  A
\* 'close' emitted while the handler is suspended finds only setupSSE's
\* listener.
CommentsSubscribed(c) ==
    /\ pc[c] = "awaitSubscribe"
    /\ redisListeners' = redisListeners \cup {c}
    /\ pc' = [pc EXCEPT ![c] = "open"]
    /\ subscribed' = [subscribed EXCEPT ![c] = TRUE]
    /\ UNCHANGED << useRedis, topic, reqClosed, resErrored, timer, ended, sent,
                    lateWrites, localSSEClients, isActive, pending,
                    brokerQ, nEvents, reply, lastPub, teardowns, due, pgVars >>

\* subscribe rejects: the catch writes the error frame, the handlers are
\* registered all the same.
CommentsSubscribeFailed(c) ==
    /\ pc[c] = "awaitSubscribe"
    /\ sent' = ResWrite(sent, {c}, ErrorFrame)
    /\ lateWrites' = LateWrite({c})
    /\ pc' = [pc EXCEPT ![c] = "open"]
    /\ UNCHANGED << useRedis, topic, reqClosed, resErrored, timer, ended,
                    localSSEClients, redisListeners, isActive, pending,
                    brokerQ, nEvents, reply, lastPub, subscribed, teardowns, due,
                    pgVars >>

\* redisSubscriber.unsubscribe("comment_events"): the listeners left on the
\* channel.  The call names no listener, and node-redis (the v4 API the code
\* uses: connect(), subscribe(channel, listener)) then unsubscribes the
\* channel and drops all its listeners.
Unsubscribe(listeners, c) == {}

\* The body shared by req.on("close") and res.on("error") of the route.
CommentsTeardown(c, handler) ==
    /\ teardowns' = [teardowns EXCEPT ![c] = @ + 1]
    /\ IF ~useRedis
       THEN /\ localSSEClients' = SpliceOut(localSSEClients, c)
            /\ timer' = [timer EXCEPT ![c] = FALSE]
            /\ ended' = [ended EXCEPT ![c] = TRUE]
            /\ UNCHANGED << isActive, redisListeners, pending >>
       ELSE /\ isActive' = [isActive EXCEPT ![c] = FALSE]
            /\ redisListeners' = Unsubscribe(redisListeners, c)
            /\ pending' = [pending EXCEPT ![c] = @ \cup {handler}]
            /\ timer' = [timer EXCEPT ![c] = IF handler = "close" THEN FALSE ELSE @]
            /\ UNCHANGED << localSSEClients, ended >>

\* req emits 'close': setupSSE's listener clears the interval; the route's
\* listener runs if the handler has registered it by now.
CommentsReqClose(c) ==
    /\ pc[c] \in {"awaitSubscribe", "open"}
    /\ ~reqClosed[c]
    /\ reqClosed' = [reqClosed EXCEPT ![c] = TRUE]
    /\ IF pc[c] = "open"
       THEN CommentsTeardown(c, "close")
       ELSE /\ timer' = [timer EXCEPT ![c] = FALSE]
            /\ UNCHANGED << localSSEClients, ended, isActive, redisListeners,
                            pending, teardowns >>
    /\ UNCHANGED << useRedis, pc, topic, resErrored, sent, lateWrites,
                    brokerQ, nEvents, reply, lastPub, subscribed, due, pgVars >>

\* res emits 'error' (with no listener yet the event would be unhandled, so
\* it is taken once the route has registered its listener).
CommentsResError(c) ==
    /\ pc[c] = "open"
    /\ ~resErrored[c]
    /\ resErrored' = [resErrored EXCEPT ![c] = TRUE]
    /\ CommentsTeardown(c, "error")
    /\ UNCHANGED << useRedis, pc, topic, reqClosed, sent, lateWrites,
                    brokerQ, nEvents, reply, lastPub, subscribed, due, pgVars >>

\* await unsubscribe(...) returns (or throws into the catch): disconnect().
CommentsTeardownResume(c, handler) ==
    /\ handler \in pending[c]
    /\ pending' = [pending EXCEPT ![c] = @ \ {handler}]
    /\ timer' = [timer EXCEPT ![c] = FALSE]
    /\ ended' = [ended EXCEPT ![c] = TRUE]
    /\ UNCHANGED << useRedis, pc, topic, reqClosed, resErrored, sent, 
                    lateWrites, localSSEClients, redisListeners, isActive, brokerQ,
                    nEvents, reply, lastPub, subscribed, teardowns, due, pgVars >>

\* `... (${localSSEClients.length} ...)`: the count the response reports.
ReportedCount(list, threw) == Len(list)

\* The body of both direct-publish routes.  published: whether
\* redisClient.publish resolves.
DirectPublish(body, threw, published) ==
    /\ nEvents < MaxEvents
    /\ nEvents' = nEvents + 1
    /\ IF useRedis
       THEN /\ threw = {}
            /\ brokerQ' = IF published THEN Append(brokerQ, JSONStringify(body))
                          ELSE brokerQ
            /\ reply' = [status |-> IF published THEN 200 ELSE 500, clients |-> 0]
            /\ UNCHANGED << sent, lateWrites, lastPub, due >>
       ELSE /\ threw \subseteq Range(localSSEClients)
            /\ published
            /\ sent' = LocalBroadcast(localSSEClients, threw, LocalFrame(body), sent)
            /\ lateWrites' = LateWrite(Range(localSSEClients) \ threw)
            /\ reply' = [status |-> 200,
                         clients |-> ReportedCount(localSSEClients, threw)]
            /\ lastPub' = [list |-> localSSEClients, threw |-> threw,
                           json |-> JSONStringify(body)]
            /\ due' = [c \in Clients |->
                          IF c \in Live \ threw
                          THEN Append(due[c], DataFrame(JSONStringify(body)))
                          ELSE due[c]]
            /\ UNCHANGED brokerQ
    /\ UNCHANGED << useRedis, pc, topic, reqClosed, resErrored, timer, ended,
                    localSSEClients, redisListeners, isActive, pending,
                    subscribed, teardowns, pgVars >>

\* POST /api/comment/notify
CommentNotify(body, threw, published) == DirectPublish(body, threw, published)

\* POST /api/comment/like-notify
LikeNotify(body, threw, published) == DirectPublish(body, threw, published)

\* Another publisher (another relay instance, any client of the broker)
\* publishes on comment_events.
BrokerPublish(text) ==
    /\ useRedis
    /\ nEvents < MaxEvents
    /\ nEvents' = nEvents + 1
    /\ brokerQ' = Append(brokerQ, text)
    /\ UNCHANGED << useRedis, pc, topic, reqClosed, resErrored, timer, ended, sent,
                    lateWrites, localSSEClients, redisListeners,
                    isActive, pending, reply, lastPub, subscribed, teardowns, due,
                    pgVars >>

\* The sinks messageHandler writes to when the subscriber connection
\* receives a message.
HandlerTargets(message) ==
    IF JSONParse(message).ok THEN { c \in redisListeners : isActive[c] } ELSE {}

\* redisSubscriber receives the oldest message in flight and calls every
\* listener of the channel.
BrokerDeliver ==
    /\ brokerQ # << >>
    /\ brokerQ' = Tail(brokerQ)
    /\ sent' = ResWrite(sent, HandlerTargets(Head(brokerQ)), HandlerFrame(Head(brokerQ)))
    /\ lateWrites' = LateWrite(HandlerTargets(Head(brokerQ)))
    /\ due' = [c \in Clients |->
                  IF c \in Live /\ JSONParse(Head(brokerQ)).ok
                  THEN Append(due[c], HandlerFrame(Head(brokerQ)))
                  ELSE due[c]]
    /\ UNCHANGED << useRedis, pc, topic, reqClosed, resErrored, timer, ended,
                    localSSEClients, redisListeners, isActive, pending,
                    nEvents, reply, lastPub, subscribed, teardowns, pgVars >>

\* No broker configured: the local sink list.
InitLocal ==
    /\ InitCommon
    /\ \E url \in RedisUrls, env \in NodeEnvs :
          ~UseRedis(url, env) /\ useRedis = UseRedis(url, env)

NextLocal ==
    \/ \E c \in Clients : CommentsGet(c)
    \/ \E c \in Clients : CommentsReqClose(c)
    \/ \E c \in Clients : CommentsResError(c)
    \/ \E c \in Clients : KeepAlive(c)
    \/ \E b \in Bodies, t \in SUBSET Clients, p \in BOOLEAN : CommentNotify(b, t, p)
    \/ \E b \in Bodies, t \in SUBSET Clients, p \in BOOLEAN : LikeNotify(b, t, p)

SpecLocal == InitLocal /\ [][NextLocal]_vars

\* The broker enabled.
InitRedis ==
    /\ InitCommon
    /\ \E url \in RedisUrls, env \in NodeEnvs :
          UseRedis(url, env) /\ useRedis = UseRedis(url, env)

NextRedis ==
    \/ \E c \in Clients : CommentsGet(c)
    \/ \E c \in Clients : CommentsSubscribed(c)
    \/ \E c \in Clients : CommentsSubscribeFailed(c)
    \/ \E c \in Clients : CommentsReqClose(c)
    \/ \E c \in Clients : CommentsResError(c)
    \/ \E c \in Clients, h \in {"close", "error"} : CommentsTeardownResume(c, h)
    \/ \E c \in Clients : KeepAlive(c)
    \/ \E b \in Bodies, p \in BOOLEAN : CommentNotify(b, {}, p)
    \/ \E b \in Bodies, p \in BOOLEAN : LikeNotify(b, {}, p)
    \/ \E m \in WireTexts : BrokerPublish(m)
    \/ BrokerDeliver

SpecRedis == InitRedis /\ [][NextRedis]_vars

\* ==================================================================== slug
\* GET /events/:url_slug

Slugs == { "abc", "xyz" }

\* What the database source sends on channel post_trigger.
Payloads == { JSONStringify(r) : r \in Records } \cup { NotJSON }

\* if (!clients[url_slug]) clients[url_slug] = []; clients[url_slug].push(res)
RegistryPush(reg, slug, c) ==
    [s \in DOMAIN reg \cup {slug} |->
        IF s = slug
        THEN Append(IF slug \in DOMAIN reg THEN reg[slug] ELSE << >>, c)
        ELSE reg[s]]

\* clients[url_slug].length === 0, after the filter
ReleasesBridgeAlways(remaining) == TRUE

ReleasesBridge(remaining) == remaining = << >>

\* clients[url_slug] = clients[url_slug].filter((r) => r !== res), and
\* delete clients[url_slug] when nothing remains
RegistryRemoveKeepKey(reg, slug, c) == [reg EXCEPT ![slug] = SpliceOut(reg[slug], c)]

RegistryRemove(reg, slug, c) ==
    IF SpliceOut(reg[slug], c) = << >>
    THEN [s \in DOMAIN reg \ {slug} |-> reg[s]]
    ELSE [reg EXCEPT ![slug] = SpliceOut(reg[slug], c)]

\* The request arrives; the handler suspends in await pool.connect().
SlugGet(c, slug) ==
    /\ pc[c] = "idle"
    /\ pc' = [pc EXCEPT ![c] = "awaitConnect"]
    /\ topic' = [topic EXCEPT ![c] = slug]
    /\ UNCHANGED << reqClosed, resErrored, timer, ended, sent, lateWrites, nEvents,
                    subscribed, teardowns, due, commentsVars, pgVars >>

\* pool.connect() resolves; the handler suspends in await LISTEN.
SlugConnected(c) ==
    /\ pc[c] = "awaitConnect"
    /\ pc' = [pc EXCEPT ![c] = "awaitListen"]
    /\ pgHeld' = [pgHeld EXCEPT ![c] = TRUE]
    /\ UNCHANGED << topic, reqClosed, resErrored, timer, ended, sent, lateWrites,
                    nEvents, subscribed, teardowns, due, commentsVars, clients,
                    listening, notifyOn, releases, unlistens, queryVars >>

\* LISTEN post_trigger is done: setupSSE, the registry, the notification
\* listener, req 'close' and res 'error'.
SlugListening(c) ==
    /\ pc[c] = "awaitListen"
    /\ pc' = [pc EXCEPT ![c] = "open"]
    /\ listening' = [listening EXCEPT ![c] = TRUE]
    /\ timer' = [timer EXCEPT ![c] = TRUE]
    /\ clients' = RegistryPush(clients, topic[c], c)
    /\ notifyOn' = [notifyOn EXCEPT ![c] = TRUE]
    /\ subscribed' = [subscribed EXCEPT ![c] = TRUE]
    /\ UNCHANGED << topic, reqClosed, resErrored, ended, sent, lateWrites, nEvents,
                    teardowns, due, commentsVars, pgHeld, releases, unlistens,
                    queryVars >>

\* req emits 'close'.  The listeners of setupSSE and of the route exist only
\* once the handler is past its awaits; before that the event is lost.
SlugReqClose(c) ==
    /\ pc[c] \in {"awaitConnect", "awaitListen", "open"}
    /\ ~reqClosed[c]
    /\ reqClosed' = [reqClosed EXCEPT ![c] = TRUE]
    /\ IF pc[c] = "open"
       THEN /\ notifyOn' = [notifyOn EXCEPT ![c] = FALSE]
            /\ clients' = RegistryRemove(clients, topic[c], c)
            /\ IF ReleasesBridge(SpliceOut(clients[topic[c]], c))
               THEN /\ unlistens' = [unlistens EXCEPT ![c] = @ + 1]
                    /\ listening' = [listening EXCEPT ![c] = FALSE]
                    /\ releases' = [releases EXCEPT ![c] = @ + 1]
                    /\ pgHeld' = [pgHeld EXCEPT ![c] = FALSE]
               ELSE UNCHANGED << unlistens, listening, releases, pgHeld >>
            /\ timer' = [timer EXCEPT ![c] = FALSE]
            /\ ended' = [ended EXCEPT ![c] = TRUE]
            /\ teardowns' = [teardowns EXCEPT ![c] = @ + 1]
       ELSE UNCHANGED << notifyOn, clients, unlistens, listening, releases, pgHeld,
                         timer, ended, teardowns >>
    /\ UNCHANGED << pc, topic, resErrored, sent, lateWrites, nEvents, subscribed,
                    due, commentsVars, queryVars >>

\* res emits 'error': the route's listener logs it and changes nothing.
SlugResError(c) ==
    /\ pc[c] = "open"
    /\ UNCHANGED vars

\* notify(msg) of sink c: whether it writes the notification to its response.
SlugMatchesAny(c, payload) == JSONParse(payload).ok

SlugMatches(c, payload) ==
    /\ JSONParse(payload).ok
    /\ Field(JSONParse(payload).value, "url_slug") = topic[c]

\* The database sends a notification on post_trigger: every connection on
\* which LISTEN is in force emits 'notification' to its listeners.
SlugNotification(payload) ==
    /\ nEvents < MaxEvents
    /\ nEvents' = nEvents + 1
    /\ LET targets == { c \in Clients : listening[c] /\ notifyOn[c]
                                          /\ SlugMatches(c, payload) }
       IN /\ sent' = ResWrite(sent, targets, HandlerFrame(payload))
          /\ lateWrites' = LateWrite(targets)
    /\ due' = [c \in Clients |->
                  IF /\ c \in Live
                     /\ JSONParse(payload).ok
                     /\ Field(JSONParse(payload).value, "url_slug") = topic[c]
                  THEN Append(due[c], HandlerFrame(payload))
                  ELSE due[c]]
    /\ lastPub' = [list |-> << >>, threw |-> {}, json |-> payload]
    /\ UNCHANGED << pc, topic, reqClosed, resErrored, timer, ended, subscribed,
                    teardowns, useRedis, localSSEClients, redisListeners, isActive,
                    pending, brokerQ, reply, pgVars >>

\* The snapshot that holds the route (server.js 1-292) always uses Redis
\* for /comments/stream; the route itself never reads the flag.
InitSlug ==
    /\ InitCommon
    /\ useRedis = TRUE

NextSlug ==
    \/ \E c \in Clients, s \in Slugs : SlugGet(c, s)
    \/ \E c \in Clients : SlugConnected(c)
    \/ \E c \in Clients : SlugListening(c)
    \/ \E c \in Clients : SlugReqClose(c)
    \/ \E c \in Clients : SlugResError(c)
    \/ \E c \in Clients : KeepAlive(c)
    \/ \E p \in Payloads : SlugNotification(p)

SpecSlug == InitSlug /\ [][NextSlug]_vars

\* ============================================================ notifications
\* GET /notifications/stream/:userId

\* req.params.userId as the handler reads it; "" stands for a missing id.
UserParams == Users \cup { "" }

\* A row of table notifications, as JSON.stringify(result.rows[0]) shows it.
RowJSON(r, u) == JSONStringify(<< <<"id", ToString(r)>>, <<"receiver_id", u>> >>)

RowFrame(r, u) == DataFrame(RowJSON(r, u))

\* if (!userId) { res.status(400).end(...); return }
NotifRejectsNever(userId) == FALSE

NotifRejects(userId) == userId = ""

\* The re-queries of sink c the store has not answered yet.
InFlight(iss, res, c) == iss[c] + Sum2(res[c])

\* The request arrives.  Without a user id it is answered 400 and ended;
\* otherwise setupSSE runs and the handler suspends in await pool.connect().
NotifGet(c, userId) ==
    /\ pc[c] = "idle"
    /\ topic' = [topic EXCEPT ![c] = userId]
    /\ IF NotifRejects(userId)
       THEN /\ pc' = [pc EXCEPT ![c] = "rejected"]
            /\ ended' = [ended EXCEPT ![c] = TRUE]
            /\ timer' = timer
       ELSE /\ pc' = [pc EXCEPT ![c] = "awaitConnect"]
            /\ timer' = [timer EXCEPT ![c] = TRUE]
            /\ ended' = ended
    /\ UNCHANGED << reqClosed, resErrored, sent, lateWrites, nEvents, subscribed,
                    teardowns, due, commentsVars, pgVars >>

\* pool.connect() resolves; the handler suspends in await LISTEN.
NotifConnected(c) ==
    /\ pc[c] = "awaitConnect"
    /\ pc' = [pc EXCEPT ![c] = "awaitListen"]
    /\ pgHeld' = [pgHeld EXCEPT ![c] = TRUE]
    /\ UNCHANGED << topic, reqClosed, resErrored, timer, ended, sent, lateWrites,
                    nEvents, subscribed, teardowns, due, commentsVars, clients,
                    listening, notifyOn, releases, unlistens, queryVars >>

\* LISTEN new_notification is done: the notification listener, req 'close'
\* and res 'error' are registered.
NotifListening(c) ==
    /\ pc[c] = "awaitListen"
    /\ pc' = [pc EXCEPT ![c] = "open"]
    /\ listening' = [listening EXCEPT ![c] = TRUE]
    /\ notifyOn' = [notifyOn EXCEPT ![c] = TRUE]
    /\ subscribed' = [subscribed EXCEPT ![c] = TRUE]
    /\ UNCHANGED << topic, reqClosed, resErrored, timer, ended, sent, lateWrites,
                    nEvents, teardowns, due, commentsVars, clients, pgHeld,
                    releases, unlistens, queryVars >>

\* req emits 'close'.  The listener of setupSSE is there from the start and
\* clears the interval; the listener of the route exists only once the
\* handler is past its awaits: removeListener, release, disconnect.  No
\* UNLISTEN is sent.
NotifReqClose(c) ==
    /\ pc[c] \in {"awaitConnect", "awaitListen", "open"}
    /\ ~reqClosed[c]
    /\ reqClosed' = [reqClosed EXCEPT ![c] = TRUE]
    /\ timer' = [timer EXCEPT ![c] = FALSE]
    /\ IF pc[c] = "open"
       THEN /\ notifyOn' = [notifyOn EXCEPT ![c] = FALSE]
            /\ releases' = [releases EXCEPT ![c] = @ + 1]
            /\ pgHeld' = [pgHeld EXCEPT ![c] = FALSE]
            /\ ended' = [ended EXCEPT ![c] = TRUE]
            /\ teardowns' = [teardowns EXCEPT ![c] = @ + 1]
       ELSE UNCHANGED << notifyOn, releases, pgHeld, ended, teardowns >>
    /\ UNCHANGED << pc, topic, resErrored, sent, lateWrites, nEvents, subscribed,
                    due, commentsVars, clients, listening, unlistens, queryVars >>

\* res emits 'error': the route's listener does nothing.
NotifResError(c) ==
    /\ pc[c] = "open"
    /\ UNCHANGED vars

\* The connection of sink c is lost and the client emits 'error': the
\* listener does nothing.  No notification reaches the connection any more.
NotifClientError(c) ==
    /\ pc[c] = "open"
    /\ pgHeld[c]
    /\ listening[c]
    /\ listening' = [listening EXCEPT ![c] = FALSE]
    /\ UNCHANGED << pc, topic, reqClosed, resErrored, timer, ended, sent, lateWrites,
                    nEvents, subscribed, teardowns, due, commentsVars, clients,
                    pgHeld, notifyOn, releases, unlistens, queryVars >>

\* notify(msg) of a sink: whether it sends a re-query for this wake-up.
NotifyQueriesCoalesced(inflight) == inflight = 0

NotifyQueries(inflight) == TRUE

\* A row is inserted for receiver u and the database notifies channel
\* new_notification: notify(msg) of every listening connection sends its
\* pool.query and suspends.
NotifInsert(u) ==
    /\ nEvents < MaxEvents
    /\ nEvents' = nEvents + 1
    /\ latest' = [latest EXCEPT ![u] = nEvents + 1]
    /\ issued' = [c \in Clients |->
                     IF /\ listening[c]
                        /\ notifyOn[c]
                        /\ NotifyQueries(InFlight(issued, results, c))
                     THEN issued[c] + 1 ELSE issued[c]]
    /\ UNCHANGED << pc, topic, reqClosed, resErrored, timer, ended, sent, lateWrites,
                    subscribed, teardowns, due, commentsVars, clients, pgHeld,
                    listening, notifyOn, releases, unlistens, results >>

\* The store runs one re-query of sink c, on whichever pooled connection
\* carries it: SELECT ... WHERE receiver_id = $1 ORDER BY created_at DESC
\* LIMIT 1 reads the receiver's most recent row.
NotifQueryRun(c) ==
    /\ issued[c] > 0
    /\ issued' = [issued EXCEPT ![c] = @ - 1]
    /\ results' = [results EXCEPT ![c][latest[topic[c]]] = @ + 1]
    /\ UNCHANGED << pc, topic, reqClosed, resErrored, timer, ended, sent, lateWrites,
                    nEvents, subscribed, teardowns, due, commentsVars, clients,
                    pgHeld, listening, notifyOn, releases, unlistens, latest >>

\* A result reaches the relay and notify resumes: if (latest) res.write(...).
NotifQueryReturn(c, r) ==
    /\ results[c][r] > 0
    /\ results' = [results EXCEPT ![c][r] = @ - 1]
    /\ IF r # 0
       THEN /\ sent' = ResWrite(sent, {c}, RowFrame(r, topic[c]))
            /\ lateWrites' = LateWrite({c})
       ELSE UNCHANGED << sent, lateWrites >>
    /\ UNCHANGED << pc, topic, reqClosed, resErrored, timer, ended, nEvents,
                    subscribed, teardowns, due, commentsVars, clients, pgHeld,
                    listening, notifyOn, releases, unlistens, latest, issued >>

\* The route never reads the mode flag.
InitNotif ==
    /\ InitCommon
    /\ useRedis = FALSE

NextNotif ==
    \/ \E c \in Clients, u \in UserParams : NotifGet(c, u)
    \/ \E c \in Clients : NotifConnected(c)
    \/ \E c \in Clients : NotifListening(c)
    \/ \E c \in Clients : NotifReqClose(c)
    \/ \E c \in Clients : NotifResError(c)
    \/ \E c \in Clients : NotifClientError(c)
    \/ \E c \in Clients : KeepAlive(c)
    \/ \E u \in Users : NotifInsert(u)
    \/ \E c \in Clients : NotifQueryRun(c)
    \/ \E c \in Clients, r \in Rows : NotifQueryReturn(c, r)

SpecNotif == InitNotif /\ [][NextNotif]_vars

\* ======================================================= comments on pg
\* GET /comments/stream of the Postgres-only snapshot (part_000 104-162)

\* What reaches channel comment_events: the record of trigger
\* notify_comment_change, and a text that is no JSON.
PgPayloads == { JSONStringify(RecPostAbc), NotJSON }

\* catch (err) { res.write(`data: {}\n\n`) }
OnParseFailureSkip(s, S) == s

OnParseFailure(s, S) == ResWrite(s, S, DataFrame("{}"))

\* The request arrives: setupSSE, then the handler suspends in
\* await pool.connect().
PgGet(c) ==
    /\ pc[c] = "idle"
    /\ pc' = [pc EXCEPT ![c] = "awaitConnect"]
    /\ timer' = [timer EXCEPT ![c] = TRUE]
    /\ UNCHANGED << topic, reqClosed, resErrored, ended, sent, lateWrites, nEvents,
                    subscribed, teardowns, due, commentsVars, pgVars >>

\* pool.connect() resolves; the handler suspends in await LISTEN.
PgConnected(c) ==
    /\ pc[c] = "awaitConnect"
    /\ pc' = [pc EXCEPT ![c] = "awaitListen"]
    /\ pgHeld' = [pgHeld EXCEPT ![c] = TRUE]
    /\ UNCHANGED << topic, reqClosed, resErrored, timer, ended, sent, lateWrites,
                    nEvents, subscribed, teardowns, due, commentsVars, clients,
                    listening, notifyOn, releases, unlistens, queryVars >>

\* LISTEN comment_events is done: the notification listener, req 'close'
\* and res 'error' are registered.
PgListening(c) ==
    /\ pc[c] = "awaitListen"
    /\ pc' = [pc EXCEPT ![c] = "open"]
    /\ listening' = [listening EXCEPT ![c] = TRUE]
    /\ notifyOn' = [notifyOn EXCEPT ![c] = TRUE]
    /\ subscribed' = [subscribed EXCEPT ![c] = TRUE]
    /\ UNCHANGED << topic, reqClosed, resErrored, timer, ended, sent, lateWrites,
                    nEvents, teardowns, due, commentsVars, clients, pgHeld,
                    releases, unlistens, queryVars >>

\* try { client.removeListener(...); client.release(); disconnect() }
\* catch (err) { ... }: releasing a client a second time throws, and then
\* disconnect() is not reached.
PgTeardown(c) ==
    /\ notifyOn' = [notifyOn EXCEPT ![c] = FALSE]
    /\ releases' = [releases EXCEPT ![c] = @ + 1]
    /\ pgHeld' = [pgHeld EXCEPT ![c] = FALSE]
    /\ ended' = [ended EXCEPT ![c] = ended[c] \/ pgHeld[c]]
    /\ teardowns' = [teardowns EXCEPT ![c] = @ + 1]

\* req emits 'close': the listener of setupSSE clears the interval; the
\* listener of the route exists once the handler is past its awaits.
PgReqClose(c) ==
    /\ pc[c] \in {"awaitConnect", "awaitListen", "open"}
    /\ ~reqClosed[c]
    /\ reqClosed' = [reqClosed EXCEPT ![c] = TRUE]
    /\ timer' = [timer EXCEPT ![c] = FALSE]
    /\ IF pc[c] = "open"
       THEN PgTeardown(c)
       ELSE UNCHANGED << notifyOn, releases, pgHeld, ended, teardowns >>
    /\ UNCHANGED << pc, topic, resErrored, sent, lateWrites, nEvents, subscribed,
                    due, commentsVars, clients, listening, unlistens, queryVars >>

\* res emits 'error': the same teardown; disconnect() clears the interval.
PgResError(c) ==
    /\ pc[c] = "open"
    /\ ~resErrored[c]
    /\ resErrored' = [resErrored EXCEPT ![c] = TRUE]
    /\ timer' = [timer EXCEPT ![c] = timer[c] /\ ~pgHeld[c]]
    /\ PgTeardown(c)
    /\ UNCHANGED << pc, topic, reqClosed, sent, lateWrites, nEvents, subscribed,
                    due, commentsVars, clients, listening, unlistens, queryVars >>

\* A notification on comment_events: notify(msg) of every listening
\* connection writes the re-encoded payload, or the empty object when the
\* payload does not parse.
PgNotification(payload) ==
    /\ nEvents < MaxEvents
    /\ nEvents' = nEvents + 1
    /\ LET targets == { c \in Clients : listening[c] /\ notifyOn[c] }
       IN /\ sent' = IF JSONParse(payload).ok
                     THEN ResWrite(sent, targets, HandlerFrame(payload))
                     ELSE OnParseFailure(sent, targets)
          /\ lateWrites' = LateWrite(targets)
    /\ lastPub' = [list |-> << >>, threw |-> {}, json |-> payload]
    /\ UNCHANGED << pc, topic, reqClosed, resErrored, timer, ended, subscribed,
                    teardowns, due, useRedis, localSSEClients, redisListeners,
                    isActive, pending, brokerQ, reply, pgVars >>

\* The snapshot has no broker.
InitPg ==
    /\ InitCommon
    /\ useRedis = FALSE

NextPg ==
    \/ \E c \in Clients : PgGet(c)
    \/ \E c \in Clients : PgConnected(c)
    \/ \E c \in Clients : PgListening(c)
    \/ \E c \in Clients : PgReqClose(c)
    \/ \E c \in Clients : PgResError(c)
    \/ \E c \in Clients : KeepAlive(c)
    \/ \E p \in PgPayloads : PgNotification(p)

SpecPg == InitPg /\ [][NextPg]_vars

\* ================================================================== claims

\* The event frames of a response: all but the connection and error notices.
EventFrames(s) ==
    SelectSeq(s, LAMBDA f : f \notin { ConnectedFrame(TRUE), ConnectedFrame(FALSE),
                                       ErrorFrame })

\* C1: the event frames written to a sink are exactly the events broadcast
\* to its topic after its subscription completed and before its teardown ran.
C1_ExactDelivery == \A c \in Clients : EventFrames(sent[c]) = due[c]

\* A step in which redisSubscriber takes a well-formed message off the channel.
IsDelivery == /\ brokerQ # << >>
              /\ brokerQ' = Tail(brokerQ)
              /\ JSONParse(Head(brokerQ)).ok

\* The global-stream clients that are subscribed and have neither
\* disconnected nor failed.
Connected == { b \in Clients : /\ pc[b] = "open"
                               /\ subscribed[b]
                               /\ ~reqClosed[b]
                               /\ ~resErrored[b] }

\* C2: the teardown of one client never stops delivery to another: every
\* client that is still connected is written every event received on the
\* broker channel.
C2_OthersKeepReceiving ==
    [][IsDelivery =>
         \A b \in Connected : sent'[b] = Append(sent[b], HandlerFrame(Head(brokerQ)))]_vars

\* A step that is one direct-publish call.
IsPublish == nEvents' = nEvents + 1

\* C3: a local-mode publish of E hands every sink of the list the one string
\* `data: <json of E>\n\n`: each sink whose write returns holds exactly one
\* more frame, the same for all, and no other response is written.
C3_LocalPublishIdentical ==
    [][IsPublish =>
         /\ lastPub'.json \in { "{\"content\":\"hi\"}",
                                "{\"event\":\"UPDATE\",\"likes\":\"3\"}" }
         /\ \A c \in Clients :
               sent'[c] = IF c \in Range(localSSEClients) \ lastPub'.threw
                          THEN Append(sent[c], "data: " \o lastPub'.json \o "\n\n")
                          ELSE sent[c]]_vars

\* C3 witness: two subscribed clients, {"content":"hi"} published, both hold
\* the one identical frame.
C3_Witness ==
    /\ Len(lastPub.list) = 2
    /\ lastPub.threw = {}
    /\ \A c \in Range(lastPub.list) :
          sent[c] = << ConnectedFrame(FALSE), "data: {\"content\":\"hi\"}\n\n" >>

\* C4: in local mode the count the publish response reports is the number
\* of sinks the frame was actually written to.
C4_ReportedCountIsReached ==
    (~useRedis /\ reply.status = 200) =>
        reply.clients = Cardinality(Range(lastPub.list) \ lastPub.threw)

\* C5: a sink whose write failed during a broadcast is no longer in the
\* sink list once that broadcast is over.
C5_FailedSinkEvicted == \A c \in lastPub.threw : c \notin Range(localSSEClients)

\* C6: a write that throws for one sink does not keep the frame from the
\* other sinks of the same publish call, and the call still answers success.
C6_FailureDoesNotStopOthers ==
    [][(IsPublish /\ lastPub'.threw # {}) =>
         /\ reply'.status = 200
         /\ \A c \in Range(localSSEClients) \ lastPub'.threw :
               /\ Len(sent'[c]) = Len(sent[c]) + 1
               /\ sent'[c][Len(sent'[c])] = DataFrame(lastPub'.json)]_vars

\* C6 witness: the write to the first sink of the list threw and a later
\* sink holds the frame.
C6_Witness ==
    /\ Len(lastPub.list) = 2
    /\ lastPub.threw = { lastPub.list[1] }
    /\ reply.status = 200
    /\ sent[lastPub.list[2]] = << ConnectedFrame(FALSE), DataFrame(lastPub.json) >>

\* C7: for every slug at most one connection has LISTEN in force, however
\* many sinks are subscribed to the slug.
C7_OneListenPerSlug ==
    \A s \in Slugs : Cardinality({ c \in Clients : topic[c] = s /\ listening[c] }) <= 1

\* C8: once the teardown of every client that connected has run, no pooled
\* connection is checked out, and none was released twice.
C8_ReleasedExactlyOnce ==
    (\A c \in Clients : pc[c] = "idle" \/ teardowns[c] >= 1) =>
        \A c \in Clients : ~pgHeld[c] /\ releases[c] <= 1

\* The other sinks subscribed to c's slug whose teardown has not run.
Others(c) == { d \in Live \ {c} : topic[d] = topic[c] }

Sum(f) == LET RECURSIVE S(_)
              S(n) == IF n = 0 THEN 0 ELSE f[n] + S(n - 1)
          IN S(NClients)

\* C9: the teardown of the last sink of a slug issues one UNLISTEN and one
\* release, on that sink's connection; the teardown of any other sink issues
\* none.
C9_LastTeardownReleasesOne ==
    [][\A c \in Clients :
          teardowns'[c] = teardowns[c] + 1 =>
             IF Others(c) = {}
             THEN /\ releases'[c] = releases[c] + 1
                  /\ unlistens'[c] = unlistens[c] + 1
                  /\ Sum(releases') = Sum(releases) + 1
                  /\ Sum(unlistens') = Sum(unlistens) + 1
                  /\ ~pgHeld'[c]
             ELSE /\ releases' = releases
                  /\ unlistens' = unlistens
                  /\ pgHeld' = pgHeld]_vars

\* C9 witness: two sinks of one slug are torn down; the first released
\* nothing, the last released once.
C9_Witness ==
    \E c, d \in Clients :
        /\ c # d
        /\ topic[c] = topic[d]
        /\ teardowns[c] = 1 /\ releases[c] = 0 /\ unlistens[c] = 0
        /\ teardowns[d] = 1 /\ releases[d] = 1 /\ unlistens[d] = 1

\* C10: a second teardown of a sink (req 'close' and res 'error', in either
\* order) changes nothing the first has not changed: no registry loses a
\* member and nothing is released again.
C10_TeardownIdempotent ==
    [][\A c \in Clients :
          (teardowns[c] >= 1 /\ teardowns'[c] = teardowns[c] + 1) =>
             /\ redisListeners' = redisListeners
             /\ localSSEClients' = localSSEClients
             /\ clients' = clients
             /\ releases' = releases
             /\ unlistens' = unlistens]_vars

\* C11: when the store connection behind a sink's subscription is lost (its
\* LISTEN ends though no UNLISTEN was sent), the sink is torn down in that
\* step: listener removed, out of every registry, connection released,
\* keep-alive cancelled, stream ended.
C11_ConnectionErrorTearsDown ==
    [][\A c \in Clients :
          (listening[c] /\ ~listening'[c] /\ unlistens'[c] = unlistens[c]) =>
             /\ ~notifyOn'[c]
             /\ \A s \in DOMAIN clients' : c \notin Range(clients'[s])
             /\ ~pgHeld'[c]
             /\ ~timer'[c]
             /\ ended'[c]]_vars

\* C12 (as stated): a burst of notifications is coalesced: while another
\* re-query of the sink is still in flight no frame is written, so only the
\* last re-query of a burst writes its record.
C12_BurstWritesOneFrame ==
    [][\A c \in Clients :
          Len(sent'[c]) > Len(sent[c]) => InFlight(issued', results', c) = 0]_vars

\* C12 (amended): every notification starts one re-query of its own at every
\* listening sink, a re-query reads the receiver's most recent row when the
\* store runs it, and every re-query that returns a row writes one frame
\* holding that row: one frame per raw notification.
C12_OneFramePerWake ==
    [][/\ nEvents' = nEvents + 1 =>
             \A c \in Clients : (listening[c] /\ notifyOn[c]) =>
                                    issued'[c] = issued[c] + 1
       /\ \A c \in Clients :
             issued'[c] = issued[c] - 1 =>
                 results'[c][latest[topic[c]]] = results[c][latest[topic[c]]] + 1
       /\ \A c \in Clients, r \in Rows \ {0} :
             (results'[c][r] = results[c][r] - 1 /\ ~ended[c]) =>
                 sent'[c] = Append(sent[c],
                     "data: {\"id\":\"" \o ToString(r) \o "\",\"receiver_id\":\""
                         \o topic[c] \o "\"}\n\n")]_vars

\* C12 witness: two notifications in a burst, two rows for receiver 42; the
\* sink holds two frames, both the latest row.
C12_Witness ==
    \E c \in Clients :
        /\ nEvents = 2
        /\ sent[c] = << "data: {\"id\":\"2\",\"receiver_id\":\"42\"}\n\n",
                        "data: {\"id\":\"2\",\"receiver_id\":\"42\"}\n\n" >>

\* A step in which the database source sends a payload that does not decode.
IsUndecodable == /\ nEvents' = nEvents + 1
                 /\ lastPub'.json = "not-json"

\* C13 (as stated): a source message whose payload fails to decode writes no
\* frame of any kind to any sink and leaves every listener registered.
C13_UndecodableWritesNothing ==
    [][IsUndecodable => (sent' = sent /\ notifyOn' = notifyOn)]_vars

\* C13 (amended): on the database-backed /comments/stream a payload that
\* fails to decode writes the one frame `data: {}` to every listening sink
\* and nothing to any other, every listener stays registered, and a
\* well-formed message is written to every listening sink, before and after.
C13_UndecodableWritesEmptyObject ==
    [][/\ IsUndecodable =>
             /\ notifyOn' = notifyOn
             /\ \A c \in Clients :
                   sent'[c] = IF listening[c] /\ notifyOn[c] /\ ~ended[c]
                              THEN Append(sent[c], "data: {}\n\n")
                              ELSE sent[c]
       /\ (nEvents' = nEvents + 1 /\ ~IsUndecodable) =>
             \A c \in Clients :
                (listening[c] /\ notifyOn[c] /\ ~ended[c]) =>
                    sent'[c] = Append(sent[c], "data: " \o lastPub'.json \o "\n\n")]_vars

\* C13 witness: a sink was written the empty object for a payload that did
\* not decode and then the next, well-formed record.
C13_Witness ==
    \E c \in Clients :
        sent[c] = << "data: {}\n\n",
                     "data: {\"event\":\"INSERT\",\"post_id\":\"abc\"}\n\n" >>

C15_TriggerRecordReachesSlug ==
    [][(/\ nEvents' = nEvents + 1
        /\ lastPub'.json = "{\"event\":\"INSERT\",\"post_id\":\"abc\"}") =>
          \A c \in Live :
             sent'[c] = IF topic[c] = "abc"
                        THEN Append(sent[c],
                               "data: {\"event\":\"INSERT\",\"post_id\":\"abc\"}\n\n")
                        ELSE sent[c]]_vars

\* C16: in broker mode a direct-publish call writes to no sink; when the
\* broker delivers a text that a direct-publish call put on the channel,
\* every subscribed sink of the global stream is written its frame exactly
\* once.
C16_OnceThroughBroker ==
    [][/\ (useRedis /\ IsPublish) => sent' = sent
       /\ (/\ brokerQ # << >>
           /\ brokerQ' = Tail(brokerQ)
           /\ Head(brokerQ) \in { "{\"content\":\"hi\"}",
                                  "{\"event\":\"UPDATE\",\"likes\":\"3\"}" }) =>
             \A c \in Live :
                sent'[c] = Append(sent[c], "data: " \o Head(brokerQ) \o "\n\n")]_vars

\* C17: a request for the notification stream without a user id is answered
\* 400 and ended at once, and nothing is ever set up for it: no keep-alive
\* timer, no pooled connection, no LISTEN, no listener, no re-query, no frame.
C17_MissingUserRejected ==
    \A c \in Clients :
        (pc[c] # "idle" /\ topic[c] = "") =>
            /\ pc[c] = "rejected"
            /\ ended[c]
            /\ ~timer[c]
            /\ ~pgHeld[c] /\ releases[c] = 0
            /\ ~listening[c]
            /\ ~notifyOn[c]
            /\ ~subscribed[c]
            /\ issued[c] = 0
            /\ sent[c] = << >>

\* C17 witness: a request without a user id was rejected while another
\* request holds a subscription.
C17_Witness ==
    \E c, d \in Clients :
        /\ pc[c] = "rejected" /\ topic[c] = ""
        /\ pc[d] = "open" /\ notifyOn[d]

C19_ClosedIsSilent == \A c \in Clients : teardowns[c] >= 1 => ~lateWrites[c]

\* C20: a sink receives the frames of its topic in the order the source
\* emitted the events: on the notification stream the frame of an earlier
\* row is never written after the frame of a later row.
C20_FramesInSourceOrder ==
    \A c \in Clients : \A i, j \in 1 .. Len(sent[c]) : \A a, b \in Rows \ {0} :
        (/\ i < j
         /\ sent[c][i] = "data: {\"id\":\"" \o ToString(a) \o "\",\"receiver_id\":\""
                             \o topic[c] \o "\"}\n\n"
         /\ sent[c][j] = "data: {\"id\":\"" \o ToString(b) \o "\",\"receiver_id\":\""
                             \o topic[c] \o "\"}\n\n") => a <= b

\* C21: every sink in the slug registry or in the local sink list, and every
\* pooled connection checked out for a subscription, belongs to a request
\* whose client has not disconnected; a client that disconnects while its
\* handler awaits pool.connect() or LISTEN is never registered and never
\* holds a connection once its handler has run to its end.
C21_MembersAreConnected ==
    \A c \in Clients :
        (/\ pc[c] = "open"
         /\ \/ \E s \in DOMAIN clients : c \in Range(clients[s])
            \/ c \in Range(localSSEClients)
            \/ pgHeld[c]) => ~reqClosed[c]

====
